---- MODULE Spec2Model ----
(***************************************************************************)
(* Model of src/dev_agent.py: the rule-based reviewer DevAgent.            *)
(*                                                                         *)
(* Text is modelled as sequences of one-character strings, so that         *)
(* substring search, splitting at newlines, stripping and line length are  *)
(* computed character by character as Python computes them.                *)
(* Python's None is the empty tuple and a present value v is <<v>>.        *)
(* Scores are exact decimals counted in tenths: 10 is 1.0, 5 is 0.5.       *)
(* CodeReview.timestamp (wall-clock time, line 23) is written to the       *)
(* report only and is read by no modelled operation; it is left out.       *)
(***************************************************************************)
EXTENDS Integers, Sequences, FiniteSets, TLC

VARIABLES
    rootExists,   \* Path(self.args.path).exists()
    entries,      \* what path.rglob('*') yields, in traversal order
    idx,          \* number of entries the loop of review_codebase consumed
    reviews,      \* the list review_codebase builds
    opened,       \* number of open() calls made so far
    pc,           \* position of review_codebase
    call,         \* a direct call of one of the pure methods and its arguments
    ret           \* its return value: None before the call returns

vars == <<rootExists, entries, idx, reviews, opened, pc, call, ret>>

None == <<>>
Some(v) == <<v>>

Min(a, b) == IF a <= b THEN a ELSE b
Max(a, b) == IF a >= b THEN a ELSE b

(***************************************************************************)
(* Bounds of the model.                                                    *)
(***************************************************************************)
MaxChunks == 3   \* a content is the concatenation of at most this many chunks
MaxIssues == 6   \* longest issue list passed directly to calculate_score
MaxFiles == 2    \* most entries under the reviewed root

(***************************************************************************)
(* Program constants.                                                      *)
(***************************************************************************)
MaxLineLen == 120      \* len(line) > 120
ScoreOne == 10         \* 1.0
ScoreZero == 0         \* 0.0
PenaltyPerIssue == 1   \* 0.1 per issue
PenaltyCap == 5        \* 0.5
Bonus == 1             \* 0.1

(***************************************************************************)
(* String literals of the source.                                          *)
(***************************************************************************)
NL == <<"\n">>
TODO == <<"T", "O", "D", "O">>
FIXME == <<"F", "I", "X", "M", "E">>
PASSWORD == <<"\"", "p", "a", "s", "s", "w", "o", "r", "d", "\"">>
SECRET == <<"\"", "s", "e", "c", "r", "e", "t", "\"">>
UNWRAP == <<".", "u", "n", "w", "r", "a", "p", "(", ")">>
PRINTLN == <<"p", "r", "i", "n", "t", "l", "n", "!">>
DEF_KW == <<"d", "e", "f", " ">>
TRACING == <<"u", "s", "e", " ", "t", "r", "a", "c", "i", "n", "g", ":", ":">>
RESULT == <<"R", "e", "s", "u", "l", "t", "<">>
DOT_RS == <<".", "r", "s">>
DOT_PY == <<".", "p", "y">>

code_extensions ==
    { DOT_RS, <<".", "j", "s">>, <<".", "t", "s">>, DOT_PY,
      <<".", "j", "a", "v", "a">>, <<".", "c", "p", "p">>, <<".", "c">>,
      <<".", "g", "o">>, <<".", "p", "h", "p">> }

(***************************************************************************)
(* File contents.                                                          *)
(***************************************************************************)
X == <<"x">>
Filler == [i \in 1..MaxLineLen |-> "x"]

\* the pieces contents are built from, by name: every pattern the code
\* searches for, the line terminator, one plain character and one plain line
\* of 120 characters
Chunk(name) ==
    CASE name = "TODO" -> TODO
      [] name = "FIXME" -> FIXME
      [] name = "PASSWORD" -> PASSWORD
      [] name = "SECRET" -> SECRET
      [] name = "UNWRAP" -> UNWRAP
      [] name = "PRINTLN" -> PRINTLN
      [] name = "DEF" -> DEF_KW
      [] name = "TRACING" -> TRACING
      [] name = "RESULT" -> RESULT
      [] name = "NL" -> NL
      [] name = "X" -> X
      [] name = "FILLER" -> Filler

\* a content is named by the names of its chunks; Text is the content
RECURSIVE Text(_)
Text(c) == IF c = <<>> THEN <<>> ELSE Chunk(Head(c)) \o Text(Tail(c))

\* f.read() of a readable file
Read(file) == Text(file.content)

(***************************************************************************)
(* str methods.                                                            *)
(***************************************************************************)
\* sub in s: sub starts at some place of s (the empty string at every place)
Contains(sub, s) ==
    \/ sub = <<>>
    \/ \E i \in 1..(Len(s) - Len(sub) + 1) :
           s[i] = sub[1] /\ SubSeq(s, i, i + Len(sub) - 1) = sub

\* s.endswith(suffix)
EndsWith(s, suffix) ==
    /\ Len(suffix) <= Len(s)
    /\ SubSeq(s, Len(s) - Len(suffix) + 1, Len(s)) = suffix

\* s.split('\n'): one piece more than there are newlines, never empty
RECURSIVE Split(_)
Split(s) ==
    IF \A i \in 1..Len(s) : s[i] # "\n"
    THEN <<s>>
    ELSE LET k == CHOOSE i \in 1..Len(s) :
                      /\ s[i] = "\n"
                      /\ \A j \in 1..(i - 1) : s[j] # "\n"
         IN  <<SubSeq(s, 1, k - 1)>> \o Split(SubSeq(s, k + 1, Len(s)))

Whitespace == {" ", "\t", "\n", "\r"}

\* s.strip()
Strip(s) ==
    LET keep == {i \in 1..Len(s) : s[i] \notin Whitespace}
    IN  IF keep = {} THEN <<>>
        ELSE SubSeq(s, CHOOSE i \in keep : \A j \in keep : i <= j,
                       CHOOSE i \in keep : \A j \in keep : i >= j)

Upper == <<"A", "B", "C", "D", "E", "F", "G", "H", "I", "J", "K", "L", "M",
           "N", "O", "P", "Q", "R", "S", "T", "U", "V", "W", "X", "Y", "Z">>
Lowercase == <<"a", "b", "c", "d", "e", "f", "g", "h", "i", "j", "k", "l", "m",
           "n", "o", "p", "q", "r", "s", "t", "u", "v", "w", "x", "y", "z">>

\* s.lower()
Lower(s) ==
    [i \in 1..Len(s) |->
        IF \E k \in 1..26 : Upper[k] = s[i]
        THEN Lowercase[CHOOSE k \in 1..26 : Upper[k] = s[i]]
        ELSE s[i]]

\* Path.suffix: the final component from its last dot, unless that dot is
\* the component's first or last character
PathSuffix(path) ==
    LET slashes == {i \in 1..Len(path) : path[i] = "/"}
        start == IF slashes = {} THEN 1
                 ELSE 1 + CHOOSE i \in slashes : \A j \in slashes : i >= j
        name == SubSeq(path, start, Len(path))
        dots == {i \in 1..Len(name) : name[i] = "."}
        last == CHOOSE i \in dots : \A j \in dots : i >= j
    IN  IF dots = {} THEN <<>>
        ELSE IF 1 < last /\ last < Len(name)
             THEN SubSeq(name, last, Len(name))
             ELSE <<>>

is_code_file(file_path) == Lower(PathSuffix(file_path)) \in code_extensions

(***************************************************************************)
(* DevAgent.analyze_code                                                   *)
(***************************************************************************)
Issue(severity, message, i, line) ==
    [severity |-> severity, message |-> message,
     line |-> Some(i), code |-> Some(Strip(line))]

\* 'TODO' in line or 'FIXME' in line
marker_rule(line) == Contains(TODO, line) \/ Contains(FIXME, line)

length_rule_ge(line) == Len(line) >= MaxLineLen

\* len(line) > 120
length_rule(line) == Len(line) > MaxLineLen

\* '"password"' in line or '"secret"' in line
secret_rule(line) == Contains(PASSWORD, line) \/ Contains(SECRET, line)

unwrap_rule_any_path(line, file_path) == Contains(UNWRAP, line)

\* '.unwrap()' in line and file_path.endswith('.rs')
unwrap_rule(line, file_path) ==
    Contains(UNWRAP, line) /\ EndsWith(file_path, DOT_RS)

marker_issue(i, line) ==
    IF marker_rule(line)
    THEN <<Issue("Medium", "TODO or FIXME comment found", i, line)>> ELSE <<>>

length_issue(i, line) ==
    IF length_rule(line)
    THEN <<Issue("Low", "Line too long (over 120 characters)", i, line)>>
    ELSE <<>>

secret_issue(i, line) ==
    IF secret_rule(line)
    THEN <<Issue("High", "Potential hardcoded secret found", i, line)>>
    ELSE <<>>

unwrap_issue(i, line, file_path) ==
    IF unwrap_rule(line, file_path)
    THEN <<Issue("High", "Unsafe unwrap() usage found", i, line)>> ELSE <<>>

line_issues_length_first(i, line, file_path) ==
    length_issue(i, line) \o marker_issue(i, line)
        \o secret_issue(i, line) \o unwrap_issue(i, line, file_path)

\* the body of the loop over the lines: the four checks in their order
line_issues(i, line, file_path) ==
    marker_issue(i, line) \o length_issue(i, line)
        \o secret_issue(i, line) \o unwrap_issue(i, line, file_path)

\* for i, line in enumerate(lines, 1), from line i on
RECURSIVE scan_lines(_, _, _)
scan_lines(lines, i, file_path) ==
    IF i > Len(lines) THEN <<>>
    ELSE line_issues(i, lines[i], file_path)
             \o scan_lines(lines, i + 1, file_path)

analyze_code(content, file_path) == scan_lines(Split(content), 1, file_path)

(***************************************************************************)
(* DevAgent.generate_suggestions                                           *)
(***************************************************************************)
LoggingSuggestion ==
    [title |-> "Use structured logging",
     description |-> "Consider using a logging framework instead of println!",
     code |-> "use tracing::{info, warn, error};", impact |-> "Medium"]

ErrorHandlingSuggestion ==
    [title |-> "Handle errors properly",
     description |->
         "Consider using proper error handling instead of unwrap()",
     code |-> "// Use .map_err() or ? operator instead", impact |-> "High"]

TypeHintsSuggestion ==
    [title |-> "Add type hints",
     description |->
         "Consider adding type annotations for better code clarity",
     code |-> "from typing import List, Dict, Optional", impact |-> "Medium"]

\* number of places where sub occurs in s
Occurrences(sub, s) ==
    Cardinality({i \in 0..(Len(s) - Len(sub)) :
                     SubSeq(s, i + 1, i + Len(sub)) = sub})

logging_suggestion_per_match(content, file_path) ==
    IF EndsWith(file_path, DOT_RS)
    THEN [k \in 1..Occurrences(PRINTLN, content) |-> LoggingSuggestion]
    ELSE <<>>

\* if 'println!' in content and file_path.endswith('.rs')
logging_suggestion(content, file_path) ==
    IF Contains(PRINTLN, content) /\ EndsWith(file_path, DOT_RS)
    THEN <<LoggingSuggestion>> ELSE <<>>

\* if '.unwrap()' in content and file_path.endswith('.rs')
error_handling_suggestion(content, file_path) ==
    IF Contains(UNWRAP, content) /\ EndsWith(file_path, DOT_RS)
    THEN <<ErrorHandlingSuggestion>> ELSE <<>>

\* if file_path.endswith('.py') and 'def ' in content
type_hints_suggestion(content, file_path) ==
    IF EndsWith(file_path, DOT_PY) /\ Contains(DEF_KW, content)
    THEN <<TypeHintsSuggestion>> ELSE <<>>

generate_suggestions(content, file_path) ==
    logging_suggestion(content, file_path)
        \o error_handling_suggestion(content, file_path)
        \o type_hints_suggestion(content, file_path)

(***************************************************************************)
(* DevAgent.calculate_score                                                *)
(***************************************************************************)
\* str(): the empty string whose suffix line 123 tests
EmptyStr == <<>>

capped_penalty_uncapped(issues) == Len(issues) * PenaltyPerIssue

\* min(len(issues) * 0.1, 0.5)
capped_penalty(issues) == Min(Len(issues) * PenaltyPerIssue, PenaltyCap)

clamp_lower_only(score) == Max(ScoreZero, score)

\* max(0.0, min(1.0, score))
clamp(score) == Max(ScoreZero, Min(ScoreOne, score))

calculate_score(content, issues) ==
    LET lines == Split(content)
        total_lines == Len(lines)
        penalised == ScoreOne - capped_penalty(issues)
        traced == IF Contains(TRACING, content)
                  THEN penalised + Bonus ELSE penalised
        rewarded == IF Contains(RESULT, content) /\ EndsWith(EmptyStr, DOT_RS)
                    THEN traced + Bonus ELSE traced
    IN  IF total_lines = 0 THEN ScoreOne ELSE clamp(rewarded)

(***************************************************************************)
(* DevAgent.review_file                                                    *)
(***************************************************************************)
CodeReview(file_path, issues, suggestions, score) ==
    [file_path |-> file_path, issues |-> issues,
     suggestions |-> suggestions, score |-> score]

\* the exceptions open() and f.read() raise
ReadErrors == {"PermissionError", "UnicodeDecodeError"}

\* f'Error reading file: {e}'
ErrorMessage(e) ==
    IF e = "PermissionError" THEN "Error reading file: PermissionError"
    ELSE "Error reading file: UnicodeDecodeError"

\* the except branch
degraded_review(file) ==
    CodeReview(file.path,
               <<[severity |-> "Critical", message |-> ErrorMessage(file.status),
                  line |-> None, code |-> None]>>,
               <<>>, ScoreZero)

\* the try branch
full_review(file) ==
    LET content == Read(file)
        issues == analyze_code(content, file.path)
        suggestions == generate_suggestions(content, file.path)
        score == calculate_score(content, issues)
    IN  CodeReview(file.path, issues, suggestions, score)

review_file(file) ==
    IF file.status = "ok" THEN full_review(file) ELSE degraded_review(file)

(***************************************************************************)
(* Inputs.                                                                 *)
(***************************************************************************)
\* the contents of n chunks, each from the set S of chunk names
ContentsOf(S, n) == [1..n -> S]

\* what analyze_code looks for, and plain text
AnalyzeChunks ==
    {"TODO", "FIXME", "PASSWORD", "SECRET", "UNWRAP", "NL", "X", "FILLER"}

\* every chunk
SuggestChunks ==
    {"TODO", "FIXME", "PASSWORD", "SECRET", "UNWRAP", "PRINTLN", "DEF",
     "TRACING", "RESULT", "NL", "X", "FILLER"}

\* what calculate_score looks for, sources of issues and of suggestions, and
\* plain text
ScoreChunks ==
    {"TRACING", "RESULT", "TODO", "SECRET", "UNWRAP", "DEF", "NL", "X"}

A_RS == <<"a", ".", "r", "s">>
B_PY == <<"b", ".", "p", "y">>
C_JS == <<"c", ".", "j", "s">>
D_RS_UPPER == <<"d", ".", "R", "S">>
E_TXT == <<"e", ".", "t", "x", "t">>
PKG_PY == <<"p", "k", "g", ".", "p", "y">>

Paths == {A_RS, B_PY, C_JS, D_RS_UPPER}

\* the paths analyze_code is called with; the properties compare with C_JS
AnalyzePaths == {A_RS, B_PY, D_RS_UPPER}

\* issue lists of every length up to MaxIssues
IssueLists ==
    { [i \in 1..n |-> Issue("Medium", "TODO or FIXME comment found", i, TODO)] :
          n \in 0..MaxIssues }

File(path, content, status) ==
    [path |-> path, content |-> content, status |-> status, is_file |-> TRUE]

Directory(path) ==
    [path |-> path, content |-> <<>>, status |-> "ok", is_file |-> FALSE]

NoCall == [fn |-> "none"]

\* the contents of the files of a reviewed tree
TreeContents ==
    { <<>>, <<"TODO", "NL", "UNWRAP">>, <<"PRINTLN", "RESULT", "TRACING">> }

TreeEntries ==
    {File(p, c, s) : p \in {A_RS, B_PY, D_RS_UPPER, E_TXT},
                     c \in TreeContents, s \in {"ok"} \cup ReadErrors}
    \cup {Directory(PKG_PY)}

\* a traversal yields every path once
Traversals ==
    { t \in UNION {[1..n -> TreeEntries] : n \in 0..MaxFiles} :
          \A i, j \in 1..Len(t) : t[i].path = t[j].path => i = j }

(***************************************************************************)
(* review_codebase, one action per step of its loop.                       *)
(***************************************************************************)
Init ==
    /\ rootExists \in BOOLEAN
    /\ entries \in IF rootExists THEN Traversals ELSE {<<>>}
    /\ idx = 0
    /\ reviews = <<>>
    /\ opened = 0
    /\ pc = "start"
    /\ call = NoCall
    /\ ret = None

missing_root_raises ==
    /\ pc = "start"
    /\ ~rootExists
    /\ reviews' = <<>>
    /\ pc' = "raised"
    /\ UNCHANGED <<rootExists, entries, idx, opened, call, ret>>

\* if not path.exists(): return reviews
missing_root ==
    /\ pc = "start"
    /\ ~rootExists
    /\ reviews' = <<>>
    /\ pc' = "returned"
    /\ UNCHANGED <<rootExists, entries, idx, opened, call, ret>>

\* the root exists: the walk begins
begin_walk ==
    /\ pc = "start"
    /\ rootExists
    /\ reviews' = <<>>
    /\ pc' = "walk"
    /\ UNCHANGED <<rootExists, entries, idx, opened, call, ret>>

\* an entry that is no file or no code file is passed over
skip_entry ==
    /\ pc = "walk"
    /\ idx < Len(entries)
    /\ ~(entries[idx + 1].is_file /\ is_code_file(entries[idx + 1].path))
    /\ idx' = idx + 1
    /\ UNCHANGED <<rootExists, entries, reviews, opened, pc, call, ret>>

review_entry_abort_on_error ==
    /\ pc = "walk"
    /\ idx < Len(entries)
    /\ entries[idx + 1].is_file /\ is_code_file(entries[idx + 1].path)
    /\ opened' = opened + 1
    /\ idx' = idx + 1
    /\ IF entries[idx + 1].status = "ok"
       THEN reviews' = Append(reviews, review_file(entries[idx + 1])) /\ pc' = pc
       ELSE reviews' = reviews /\ pc' = "raised"
    /\ UNCHANGED <<rootExists, entries, call, ret>>

\* a code file is reviewed and its review appended
review_entry ==
    /\ pc = "walk"
    /\ idx < Len(entries)
    /\ entries[idx + 1].is_file /\ is_code_file(entries[idx + 1].path)
    /\ opened' = opened + 1
    /\ idx' = idx + 1
    /\ reviews' = Append(reviews, review_file(entries[idx + 1]))
    /\ UNCHANGED <<rootExists, entries, pc, call, ret>>

\* the walk is over: return reviews
end_walk ==
    /\ pc = "walk"
    /\ idx = Len(entries)
    /\ pc' = "returned"
    /\ UNCHANGED <<rootExists, entries, idx, reviews, opened, call, ret>>

Next == missing_root \/ begin_walk \/ skip_entry \/ review_entry \/ end_walk

Spec == Init /\ [][Next]_vars

(***************************************************************************)
(* Direct calls of the methods: a behaviour is one call, its arguments     *)
(* drawn by the initial state.                                             *)
(***************************************************************************)
Idle ==
    /\ rootExists = FALSE
    /\ entries = <<>>
    /\ idx = 0
    /\ reviews = <<>>
    /\ opened = 0
    /\ pc = "idle"
    /\ ret = None

InitAnalyze ==
    /\ Idle
    /\ \E n \in 0..MaxChunks : \E c \in ContentsOf(AnalyzeChunks, n) :
       \E p \in AnalyzePaths :
           call = [fn |-> "analyze_code", content |-> c, file_path |-> p]

call_analyze_code ==
    /\ call.fn = "analyze_code"
    /\ ret = None
    /\ ret' = Some(analyze_code(Text(call.content), call.file_path))
    /\ UNCHANGED <<rootExists, entries, idx, reviews, opened, pc, call>>

SpecAnalyze == InitAnalyze /\ [][call_analyze_code]_vars

InitSuggest ==
    /\ Idle
    /\ \E n \in 0..MaxChunks : \E c \in ContentsOf(SuggestChunks, n) :
       \E p \in Paths :
           call = [fn |-> "generate_suggestions", content |-> c,
                   file_path |-> p]

call_generate_suggestions ==
    /\ call.fn = "generate_suggestions"
    /\ ret = None
    /\ ret' = Some(generate_suggestions(Text(call.content), call.file_path))
    /\ UNCHANGED <<rootExists, entries, idx, reviews, opened, pc, call>>

SpecSuggest == InitSuggest /\ [][call_generate_suggestions]_vars

InitScore ==
    /\ Idle
    /\ \E n \in 0..MaxChunks : \E c \in ContentsOf(ScoreChunks, n) :
           \/ \E l \in IssueLists :
                  call = [fn |-> "calculate_score", content |-> c, issues |-> l]
           \/ \E p \in Paths :
                  call = [fn |-> "review_file", file |-> File(p, c, "ok")]
           \/ \E p \in Paths, e \in ReadErrors :
                  /\ n = 0
                  /\ call = [fn |-> "review_file", file |-> File(p, c, e)]

call_calculate_score ==
    /\ call.fn = "calculate_score"
    /\ ret = None
    /\ ret' = Some(calculate_score(Text(call.content), call.issues))
    /\ UNCHANGED <<rootExists, entries, idx, reviews, opened, pc, call>>

call_review_file ==
    /\ call.fn = "review_file"
    /\ ret = None
    /\ ret' = Some(review_file(call.file))
    /\ opened' = opened + 1
    /\ UNCHANGED <<rootExists, entries, idx, reviews, pc, call>>

NextScore == call_calculate_score \/ call_review_file

SpecScore == InitScore /\ [][NextScore]_vars

(***************************************************************************)
(* Properties.                                                             *)
(***************************************************************************)
Returned(fn) == call.fn = fn /\ ret # None
Result == ret[1]

MarkerMessage == "TODO or FIXME comment found"
LengthMessage == "Line too long (over 120 characters)"
SecretMessage == "Potential hardcoded secret found"
UnwrapMessage == "Unsafe unwrap() usage found"

\* the issues of r that rule msg raised on line i
IssuesAt(r, msg, i) ==
    {k \in 1..Len(r) : r[k].message = msg /\ r[k].line = Some(i)}

Messages(r) == [k \in 1..Len(r) |-> r[k].message]

\* C10: analyze_code reports 'Line too long' for a line exactly when the
\* line, without its terminator, has more than 120 characters: 121 triggers
\* the rule, 120 does not.
C10_LengthBoundary ==
    Returned("analyze_code") =>
        LET lines == Split(Text(call.content))
        IN  \A i \in 1..Len(lines) :
                /\ Len(lines[i]) >= 121 => IssuesAt(Result, LengthMessage, i) # {}
                /\ Len(lines[i]) <= 120 => IssuesAt(Result, LengthMessage, i) = {}

\* a line of exactly 121 characters was analysed and reported as too long
C10_Witness ==
    /\ Returned("analyze_code")
    /\ \E i \in 1..Len(Split(Text(call.content))) :
           /\ Len(Split(Text(call.content))[i]) = 121
           /\ IssuesAt(Result, LengthMessage, i) # {}

\* the place of a rule in the battery
Rank(msg) ==
    CASE msg = MarkerMessage -> 1
      [] msg = LengthMessage -> 2
      [] msg = SecretMessage -> 3
      [] msg = UnwrapMessage -> 4

\* the rules a line triggers in a file of the given path
Triggered(line, file_path) ==
    (IF Contains(TODO, line) \/ Contains(FIXME, line)
     THEN {MarkerMessage} ELSE {})
    \cup (IF Len(line) > 120 THEN {LengthMessage} ELSE {})
    \cup (IF Contains(PASSWORD, line) \/ Contains(SECRET, line)
          THEN {SecretMessage} ELSE {})
    \cup (IF Contains(UNWRAP, line) /\ EndsWith(file_path, DOT_RS)
          THEN {UnwrapMessage} ELSE {})

\* C7: the issues of analyze_code are ordered by line number and, within a
\* line, by the order of the rules (marker, length, secret, unwrap); a rule
\* gives at most one issue per line, and a line that triggers k rules gives
\* exactly k issues, all bearing its 1-based number.
C7_IssueOrder ==
    Returned("analyze_code") =>
        LET lines == Split(Text(call.content))
            r == Result
        IN  /\ \A k \in 1..Len(r) : r[k].line # None /\ r[k].line[1] \in 1..Len(lines)
            /\ \A k \in 1..(Len(r) - 1) :
                   \/ r[k].line[1] < r[k + 1].line[1]
                   \/ /\ r[k].line[1] = r[k + 1].line[1]
                      /\ Rank(r[k].message) < Rank(r[k + 1].message)
            /\ \A i \in 1..Len(lines) :
                   /\ Cardinality({k \in 1..Len(r) : r[k].line = Some(i)})
                          = Cardinality(Triggered(lines[i], call.file_path))
                   /\ \A msg \in Triggered(lines[i], call.file_path) :
                          Cardinality(IssuesAt(r, msg, i)) = 1

\* a line of more than 120 characters holding TODO and "secret" gave exactly
\* the issues marker, length, secret
C7_Witness ==
    /\ Returned("analyze_code")
    /\ call.content = <<"TODO", "FILLER", "SECRET">>
    /\ Messages(Result) = <<MarkerMessage, LengthMessage, SecretMessage>>
    /\ \A k \in 1..3 : Result[k].line = Some(1)

\* the issues of r that the unwrap rule did not raise
RECURSIVE WithoutUnwrap(_)
WithoutUnwrap(r) ==
    IF r = <<>> THEN <<>>
    ELSE IF Head(r).message = UnwrapMessage THEN WithoutUnwrap(Tail(r))
         ELSE <<Head(r)>> \o WithoutUnwrap(Tail(r))

\* C6: analyze_code reports 'Unsafe unwrap() usage found' for a line exactly
\* when the line contains .unwrap() and the path ends in .rs; under a path of
\* another language the same content gives the same issues without the
\* unwrap ones (compared with the .js path, which every call is held to).
C6_UnwrapGate ==
    Returned("analyze_code") =>
        LET text == Text(call.content)
            lines == Split(text)
            other == analyze_code(text, C_JS)
        IN  /\ \A i \in 1..Len(lines) :
                   IssuesAt(Result, UnwrapMessage, i) # {}
                       <=> /\ Contains(UNWRAP, lines[i])
                           /\ EndsWith(call.file_path, DOT_RS)
            /\ WithoutUnwrap(Result) = other
            /\ \A k \in 1..Len(other) : other[k].message # UnwrapMessage

\* an .unwrap() line of an .rs file was reported next to another rule's issue
C6_Witness ==
    /\ Returned("analyze_code")
    /\ call.file_path = A_RS
    /\ call.content = <<"TODO", "UNWRAP">>
    /\ Messages(Result) = <<MarkerMessage, UnwrapMessage>>

SuggestionOrder ==
    <<"Use structured logging", "Handle errors properly", "Add type hints">>

Place(title) == CHOOSE n \in 1..3 : SuggestionOrder[n] = title

\* C5: generate_suggestions gives each of the three suggestions at most once
\* however often its pattern occurs: at most 3 entries, no title twice, and
\* always in the order logging, error handling, type hints.
C5_SuggestionsOnce ==
    Returned("generate_suggestions") =>
        LET r == Result
        IN  /\ Len(r) <= 3
            /\ \A k \in 1..Len(r) : \E n \in 1..3 : SuggestionOrder[n] = r[k].title
            /\ \A j, k \in 1..Len(r) :
                   j < k => Place(r[j].title) < Place(r[k].title)

\* println! occurs twice in an .rs file that also holds .unwrap(): one
\* logging suggestion, then the error handling one
C5_Witness ==
    /\ Returned("generate_suggestions")
    /\ call.file_path = A_RS
    /\ call.content = <<"PRINTLN", "UNWRAP", "PRINTLN">>
    /\ [k \in 1..Len(Result) |-> Result[k].title]
           = <<"Use structured logging", "Handle errors properly">>

\* C3: for non-empty content without a bonus marker and n issues,
\* calculate_score returns exactly 1.0 - min(0.1 * n, 0.5): 0.5 for every
\* n >= 5, and never less than 0.5.
C3_PenaltyCap ==
    (/\ Returned("calculate_score")
     /\ Text(call.content) # <<>>
     /\ ~Contains(TRACING, Text(call.content))
     /\ ~Contains(RESULT, Text(call.content)))
    => LET n == Len(call.issues)
       IN  /\ Result = 10 - (IF n <= 5 THEN n ELSE 5)
           /\ n >= 5 => Result = 5
           /\ Result >= 5

\* six issues and no bonus marker scored 0.5
C3_Witness ==
    /\ Returned("calculate_score")
    /\ call.content = <<"X">>
    /\ Len(call.issues) = 6
    /\ Result = 5

\* C2: every value calculate_score returns lies in [0.0, 1.0], and so does
\* the score of every review review_file produces, degraded ones included.
C2_ScoreRange ==
    /\ Returned("calculate_score") => Result \in 0..10
    /\ Returned("review_file") => Result.score \in 0..10

\* the structured-logging bonus on top of a full score was clamped to 1.0
C2_Witness ==
    /\ Returned("calculate_score")
    /\ Contains(TRACING, Text(call.content))
    /\ call.issues = <<>>
    /\ Result = 10

\* C4: a reviewed file's score receives the 0.1 fallible-result bonus exactly
\* when its content contains Result< and its path ends in .rs: the score is
\* 1.0 less the capped penalty, plus the structured-logging bonus, plus that
\* bonus, clamped.
C4_ResultBonus ==
    (Returned("review_file") /\ call.file.status = "ok") =>
        LET text == Text(call.file.content)
            n == Len(Result.issues)
            raw == 10 - (IF n <= 5 THEN n ELSE 5)
                      + (IF Contains(TRACING, text) THEN 1 ELSE 0)
                      + (IF Contains(RESULT, text) /\ EndsWith(call.file.path, DOT_RS)
                         THEN 1 ELSE 0)
        IN  Result.score = IF raw > 10 THEN 10 ELSE raw

\* C9: for empty content analyze_code returns no issue and calculate_score
\* returns exactly 1.0, whatever issues are passed to it.
C9_EmptyContent ==
    /\ (Returned("calculate_score") /\ Text(call.content) = <<>>)
           => Result = 10
    /\ (Returned("review_file") /\ call.file.status = "ok"
            /\ Text(call.file.content) = <<>>)
           => Result.issues = <<>>

\* the recognized code files among the first n entries of the traversal
RECURSIVE CodeFiles(_)
CodeFiles(n) ==
    IF n = 0 THEN <<>>
    ELSE IF entries[n].is_file
            /\ Lower(PathSuffix(entries[n].path)) \in code_extensions
         THEN Append(CodeFiles(n - 1), entries[n])
         ELSE CodeFiles(n - 1)

\* C1: whichever files fail to be read or decoded, review_codebase never
\* aborts and returns one review per recognized code file, in traversal
\* order: a failing file gives exactly one Critical issue without line and
\* code, no suggestion and score 0.0, and a readable file gives the review
\* it gives when no file fails.
C1_DegradedReviews ==
    /\ pc # "raised"
    /\ pc \in {"walk", "returned"} =>
           LET files == CodeFiles(idx)
           IN  /\ pc = "returned" => idx = Len(entries)
               /\ Len(reviews) = Len(files)
               /\ \A i \in 1..Len(files) :
                      /\ reviews[i].file_path = files[i].path
                      /\ files[i].status # "ok" =>
                             /\ Len(reviews[i].issues) = 1
                             /\ reviews[i].issues[1].severity = "Critical"
                             /\ reviews[i].issues[1].line = None
                             /\ reviews[i].issues[1].code = None
                             /\ reviews[i].suggestions = <<>>
                             /\ reviews[i].score = 0
                      /\ files[i].status = "ok" =>
                             reviews[i] = full_review(files[i])

\* a file that failed was followed by a readable one, and both were reviewed
C1_Witness ==
    /\ pc = "returned"
    /\ Len(reviews) = 2
    /\ entries[1].status # "ok"
    /\ entries[2].status = "ok"
    /\ reviews[1].score = 0
    /\ reviews[2].issues # <<>>

\* C8: when the root does not exist review_codebase returns no review,
\* raises nothing and reads no file.
C8_MissingRoot ==
    ~rootExists =>
        /\ pc \in {"start", "returned"}
        /\ reviews = <<>>
        /\ opened = 0
        /\ idx = 0

\* review_codebase returned for a root that does not exist
C8_Witness == ~rootExists /\ pc = "returned"

====
